---- MODULE Spec2Model ----
(***************************************************************************)
(* Constrained-generation priors of deep-symbolic-optimization             *)
(* (dsr/prior.py): the Library's derived token sets, the {0, -inf} mask    *)
(* algebra, the Constraint classes and their JointPrior, the make_prior    *)
(* factory, and the token-by-token generation that consumes the masks;     *)
(* and the validation of whole trees in dsr/gp/symbolic_math.py:           *)
(* check_inv, check_trig and the checkConstraint and popConstraint          *)
(* decorators.                                                             *)
(*                                                                         *)
(* Token ids are 1-based here (Python's are 0-based); the adjusted parent  *)
(* index keeps Python's values (0.. for operators, -1 for terminals).      *)
(* An optional argument (None or a value) is the empty tuple or <<v>>.     *)
(***************************************************************************)
EXTENDS Integers, Sequences, FiniteSets, TLC

VARIABLES
    lib,        \* the Library: the sequence of token names
    config,     \* config_prior: the (type, args) items in dict order
    budget,     \* how many tokens the sampler emits at most per sequence
    pc,         \* "config", "init", "call", "choose", "done", "truncated",
                \* "error"
    priors,     \* JointPrior.priors: the constructed constraint objects
    err,        \* the exception raised, "" when none
    errAt,      \* the operation that raised it, "" when none
    actions,    \* the token ids chosen so far (one batch row)
    dangling,   \* the row's dangling count
    trajectory, \* the dangling count after each token chosen so far
    mask,       \* the row's mask returned by the latest mask request
    gpc,        \* position of the validation code: "idle", "check", "checked",
                \* "call", "loop", "returned"
    names,      \* the token names handed to check_inv / check_trig
    verdict,    \* which of the two ran and what it returned
    limits,     \* checkConstraint's max_length, min_length, max_depth
    args,       \* the individuals handed to the wrapped operator
    keep_inds,  \* checkConstraint's deep copies of args
    func_out,   \* the wrapped operator's output as it produced it
    new_inds,   \* the list checkConstraint returns
    inds,       \* popConstraint's latest candidate
    rejected,   \* popConstraint's latest rejected candidate, if any
    ret,        \* what popConstraint returned
    generator   \* the candidates the generator wrapped by popConstraint can return

gpvars == <<gpc, names, verdict, limits, args, keep_inds, func_out, new_inds,
            inds, rejected, ret, generator>>

priorvars == <<lib, config, budget, pc, priors, err, errAt, actions, dangling,
               trajectory, mask>>

vars == <<lib, config, budget, pc, priors, err, errAt, actions, dangling,
          trajectory, mask, gpc, names, verdict, limits, args, keep_inds,
          func_out, new_inds, inds, rejected, ret, generator>>

----------------------------------------------------------------------------
(* Bounds of the model *)

NTokens == 4    \* libraries of the length runs: subsets of the first NTokens names
NFull == 4      \* the library of the joint runs: the first NFull names
MaxMin == 4     \* min_ ranges over None, 1..MaxMin
MaxMax == 6     \* max_ ranges over None, 1..MaxMax
MaxSteps == 7   \* the sampler's budget in the length runs
MaxPairs == 2   \* a ChildConstraint lists at most MaxPairs (child, parent) pairs
ChildSteps == 3 \* the sampler's budget in the child runs
JointMin == 2   \* min_ is None or JointMin in the joint runs
JointMax == 3   \* max_ is None or JointMax in the joint runs
JointSteps == 3 \* the sampler's budget in the joint runs
MaxPriors == 2  \* a configuration names at most MaxPriors constraint types
MaxOther == 3   \* the other batch row's dangling count ranges over 1..MaxOther
LongMax == 9    \* max_ ranges over 1..LongMax in the long runs
MaxNames == 3   \* check_inv is applied to every name sequence of up to MaxNames names
MaxTree == 5    \* check_trig is applied to every tree of up to MaxTree nodes
MaxOut == 3     \* a wrapped operator returns trees of up to MaxOut nodes
PopTree == 4    \* a wrapped generator returns trees of up to PopTree nodes
MaxTokens == 5  \* generate_priors is handed every token sequence of up to MaxTokens tokens
FairTree == 3   \* in the retry runs the generators return trees of up to FairTree nodes

----------------------------------------------------------------------------
(* Optional values *)

None == <<>>
Some(v) == <<v>>
IsNone(x) == x = <<>>
Val(x) == x[1]
Opt(S) == {None} \cup {Some(v) : v \in S}

(* Results of operations that may raise *)
Ok(v) == [ok |-> TRUE, val |-> v, err |-> ""]
Raise(e) == [ok |-> FALSE, val |-> <<>>, err |-> e]

----------------------------------------------------------------------------
(* Floats that occur in masks: finite values and -inf *)

Zero == [k |-> "fin", v |-> 0]
NegInf == [k |-> "-inf", v |-> 0]

(* an addition in which two -inf cancel into a value that is no number *)
FAdd_InfCancels(x, y) ==
    IF x.k = "-inf" /\ y.k = "-inf" THEN [k |-> "nan", v |-> 0]
    ELSE IF x.k = "-inf" \/ y.k = "-inf" THEN NegInf
    ELSE [k |-> "fin", v |-> x.v + y.v]

FAdd(x, y) ==
    IF x.k = "-inf" \/ y.k = "-inf" THEN NegInf
    ELSE [k |-> "fin", v |-> x.v + y.v]

(* np.zeros((n, L)) and np.zeros((L,)) *)
ZerosVec(L) == [t \in 1..L |-> Zero]
ZerosMat(n, L) == [r \in 1..n |-> ZerosVec(L)]

(* elementwise + of two vectors / two matrices of one shape *)
VecAdd(a, b) == [t \in DOMAIN a |-> FAdd(a[t], b[t])]
MatAdd(a, b) == [r \in DOMAIN a |-> VecAdd(a[r], b[r])]

----------------------------------------------------------------------------
(* Token Library: names, arities and the derived index sets *)

Vocab == <<"x1", "const", "add", "exp", "log", "sin", "neg", "mul">>
JointVocab == <<"add", "exp", "x1", "log", "const", "sin", "neg", "mul">>

Arity(name) ==
    CASE name \in {"x1", "const"} -> 0
      [] name \in {"exp", "log", "sin", "cos", "neg"} -> 1
      [] name \in {"add", "mul"} -> 2

(* the Library holding the names at the vocabulary positions S, in order *)
RECURSIVE LibOf(_, _)
LibOf(S, n) ==
    IF n = 0 THEN <<>>
    ELSE IF n \in S THEN Append(LibOf(S, n - 1), Vocab[n])
         ELSE LibOf(S, n - 1)

LibL(l) == Len(l)
Arities(l) == [t \in 1..Len(l) |-> Arity(l[t])]
TerminalTokens(l) == {t \in 1..Len(l) : Arity(l[t]) = 0}
UnaryTokens(l) == {t \in 1..Len(l) : Arity(l[t]) = 1}
BinaryTokens(l) == {t \in 1..Len(l) : Arity(l[t]) = 2}

(* library.parent_adjust: operators are numbered 0, 1, ... in library order,
   terminals map to -1 *)
ParentAdjust(l) ==
    [t \in 1..Len(l) |->
        IF Arity(l[t]) > 0
        THEN Cardinality({u \in 1..(t - 1) : Arity(l[u]) > 0})
        ELSE -1]

(* INVERSE_TOKENS: the base table, updated with the inverse trig functions,
   updated with its own reverse *)
TRIG_TOKENS == <<"sin", "cos", "tan", "csc", "sec", "cot">>

DictUpdate(d, e) ==
    [k \in DOMAIN d \cup DOMAIN e |-> IF k \in DOMAIN e THEN e[k] ELSE d[k]]

DictReverse(d) ==
    [v \in {d[k] : k \in DOMAIN d} |-> CHOOSE k \in DOMAIN d : d[k] = v]

INVERSE_BASE ==
    [k \in {"exp", "neg", "inv", "sqrt"} |->
        CASE k = "exp" -> "log"
          [] k = "neg" -> "neg"
          [] k = "inv" -> "inv"
          [] k = "sqrt" -> "n2"]

INVERSE_TRIG ==
    [t \in {TRIG_TOKENS[i] : i \in DOMAIN TRIG_TOKENS} |-> "arc" \o t]

(* a table that lacks the reverse entries *)
INVERSE_TOKENS_OneWay == DictUpdate(INVERSE_BASE, INVERSE_TRIG)

INVERSE_TOKENS ==
    LET withTrig == DictUpdate(INVERSE_BASE, INVERSE_TRIG)
    IN  DictUpdate(withTrig, DictReverse(withTrig))

(* library.inverse_tokens: token id -> id of its inverse, for the tokens
   whose inverse is in the library too; the ids in increasing order are the
   dict's keys() *)
IndexOf(l, name) == CHOOSE t \in 1..Len(l) : l[t] = name
HasName(l, name) == \E t \in 1..Len(l) : l[t] = name

InverseKeys(l) ==
    {t \in 1..Len(l) :
        l[t] \in DOMAIN INVERSE_TOKENS /\ HasName(l, INVERSE_TOKENS[l[t]])}

InverseOf(l, t) == IndexOf(l, INVERSE_TOKENS[l[t]])

(* the elements of a set of integers, in increasing order *)
RECURSIVE SortedSeq(_)
SortedSeq(S) ==
    IF S = {} THEN <<>>
    ELSE LET m == CHOOSE x \in S : \A y \in S : x <= y
         IN  <<m>> \o SortedSeq(S \ {m})


----------------------------------------------------------------------------
(* Constraint.make_constraint: -inf at the columns `tokens` of the rows
   where `rowmask` is true, 0 elsewhere *)

(* a variant that writes a large finite negative logit instead of -inf *)
MakeConstraint_LargeNegative(L, rowmask, tokens) ==
    [r \in 1..Len(rowmask) |->
        [t \in 1..L |-> IF rowmask[r] /\ t \in tokens
                        THEN [k |-> "fin", v |-> -1000000000] ELSE Zero]]

(* a variant that constrains every row as soon as one row is selected *)
MakeConstraint_AnyRow(L, rowmask, tokens) ==
    [r \in 1..Len(rowmask) |->
        [t \in 1..L |-> IF (\E q \in 1..Len(rowmask) : rowmask[q]) /\ t \in tokens
                        THEN NegInf ELSE Zero]]

MakeConstraint(L, rowmask, tokens) ==
    [r \in 1..Len(rowmask) |->
        [t \in 1..L |-> IF rowmask[r] /\ t \in tokens THEN NegInf ELSE Zero]]

(* Prior.zeros(actions) and Prior.initial_prior *)
PriorZeros(L, acts) == ZerosMat(Len(acts), L)
PriorInitialPrior(L) == ZerosVec(L)

----------------------------------------------------------------------------
(* Constraint constructors: the object built, or the exception raised *)

(* a variant that asks for both bounds *)
LengthConstraintInit_NeedsBoth(l, min_, max_) ==
    IF ~(~IsNone(min_) /\ ~IsNone(max_))
    THEN Raise("AssertionError: At least one of (min_, max_) must not be None.")
    ELSE Ok([type |-> "length", min |-> min_, max |-> max_])

LengthConstraintInit(l, min_, max_) ==
    IF ~(~IsNone(min_) \/ ~IsNone(max_))
    THEN Raise("AssertionError: At least one of (min_, max_) must not be None.")
    ELSE Ok([type |-> "length", min |-> min_, max |-> max_])

RepeatConstraintInit(l, tokens, min_, max_) ==
    IF ~(~IsNone(min_) \/ ~IsNone(max_))
    THEN Raise("AssertionError: At least one of (min_, max_) must not be None.")
    ELSE Ok([type |-> "repeat", min |-> min_, max |-> max_, tokens |-> tokens])

DescendantConstraintInit(l, descendants, ancestors) ==
    Ok([type |-> "descendant", descendants |-> descendants,
        ancestors |-> ancestors])

(* the value asserted by ChildConstraint.__init__: the list of the
   comparisons itself, which Python takes as true unless it is empty *)
ParentsAssertion(l, parents) ==
    LET checks == [k \in 1..Len(parents) |-> Arity(l[parents[k]]) > 0]
    IN  Len(checks) > 0

ChildConstraintInit(l, children, parents) ==
    LET adj == [k \in 1..Len(parents) |-> ParentAdjust(l)[parents[k]]]
    IN  IF ~ParentsAssertion(l, parents)
        THEN Raise("AssertionError: Terminal Tokens cannot be parents.")
        ELSE Ok([type |-> "child", children |-> children,
                 parents |-> parents, adj_parents |-> adj])

(* a variant that lists the keys as the children too *)
InverseUnaryConstraintInit_SelfPairs(l) ==
    LET keys == SortedSeq(InverseKeys(l))
        built == ChildConstraintInit(l, keys, keys)
    IN  IF built.ok THEN Ok([built.val EXCEPT !.type = "inverse"]) ELSE built

InverseUnaryConstraintInit(l) ==
    LET keys == SortedSeq(InverseKeys(l))
        values == [k \in 1..Len(keys) |-> InverseOf(l, keys[k])]
        built == ChildConstraintInit(l, values, keys)
    IN  IF built.ok THEN Ok([built.val EXCEPT !.type = "inverse"]) ELSE built

----------------------------------------------------------------------------
(* Mask requests.  `acts` is the batch of action rows (all of one length),
   `parent`, `sibling` and `dang` (dangling) hold one value per row. *)

(* a variant that lets a single terminal stand when min_ allows length 1 *)
LengthInitialPrior_MinAware(l, c) ==
    [t \in 1..LibL(l) |->
        IF t \in TerminalTokens(l) /\ (IsNone(c.min) \/ Val(c.min) > 1)
        THEN NegInf ELSE Zero]

(* LengthConstraint.initial_prior *)
LengthInitialPrior(l, c) ==
    [t \in 1..LibL(l) |-> IF t \in TerminalTokens(l) THEN NegInf ELSE Zero]

(* the max_ part of LengthConstraint.__call__ *)
(* a variant that starts checking the maximum two tokens before it *)
LengthMaxPart_LateStart(l, c, acts, dang) ==
    LET i == Len(acts[1]) - 1
        zeros == PriorZeros(LibL(l), acts)
    IN  IF ~IsNone(c.max) /\ (i + 2) >= (Val(c.max) - 1)
        THEN LET remaining == Val(c.max) - (i + 1)
                 binmask == [r \in 1..Len(dang) |-> dang[r] >= remaining - 1]
                 unmask == [r \in 1..Len(dang) |-> dang[r] = remaining]
             IN  MatAdd(MatAdd(zeros,
                               MakeConstraint(LibL(l), binmask, BinaryTokens(l))),
                        MakeConstraint(LibL(l), unmask, UnaryTokens(l)))
        ELSE zeros

LengthMaxPart(l, c, acts, dang) ==
    LET i == Len(acts[1]) - 1
        zeros == PriorZeros(LibL(l), acts)
    IN  IF ~IsNone(c.max) /\ (i + 2) >= (Val(c.max) \div 2)
        THEN LET remaining == Val(c.max) - (i + 1)
                 binmask == [r \in 1..Len(dang) |-> dang[r] >= remaining - 1]
                 unmask == [r \in 1..Len(dang) |-> dang[r] = remaining]
             IN  MatAdd(MatAdd(zeros,
                               MakeConstraint(LibL(l), binmask, BinaryTokens(l))),
                        MakeConstraint(LibL(l), unmask, UnaryTokens(l)))
        ELSE zeros

(* a variant that stops constraining one token early *)
LengthMinPart_StopsEarly(l, c, acts, dang) ==
    LET i == Len(acts[1]) - 1
    IN  IF ~IsNone(c.min) /\ (i + 2) < Val(c.min) - 1
        THEN MakeConstraint(LibL(l),
                            [r \in 1..Len(dang) |-> dang[r] = 1],
                            TerminalTokens(l))
        ELSE PriorZeros(LibL(l), acts)

(* a variant that counts the tokens chosen instead of the one to come *)
LengthMinPart_CountsChosen(l, c, acts, dang) ==
    LET i == Len(acts[1]) - 1
    IN  IF ~IsNone(c.min) /\ (i + 1) < Val(c.min)
        THEN MakeConstraint(LibL(l),
                            [r \in 1..Len(dang) |-> dang[r] = 1],
                            TerminalTokens(l))
        ELSE PriorZeros(LibL(l), acts)

(* the min_ part of LengthConstraint.__call__ *)
LengthMinPart(l, c, acts, dang) ==
    LET i == Len(acts[1]) - 1
    IN  IF ~IsNone(c.min) /\ (i + 2) < Val(c.min)
        THEN MakeConstraint(LibL(l),
                            [r \in 1..Len(dang) |-> dang[r] = 1],
                            TerminalTokens(l))
        ELSE PriorZeros(LibL(l), acts)

(* LengthConstraint.__call__ *)
LengthCall(l, c, acts, parent, sibling, dang) ==
    MatAdd(LengthMaxPart(l, c, acts, dang),
           LengthMinPart(l, c, acts, dang))

(* ChildConstraint.__call__: one make_constraint per (child, adjusted
   parent) pair, zip stopping at the shorter list *)
RECURSIVE ChildLoop(_, _, _, _, _)
ChildLoop(l, c, parent, k, prior) ==
    IF k > Len(c.children) \/ k > Len(c.adj_parents) THEN prior
    ELSE LET rowmask == [r \in 1..Len(parent) |-> parent[r] = c.adj_parents[k]]
         IN  ChildLoop(l, c, parent, k + 1,
                       MatAdd(prior,
                              MakeConstraint(LibL(l), rowmask, {c.children[k]})))

(* a variant that compares the parent with the token ids of `parents`
   instead of their adjusted indices *)
ChildCall_RawParents(l, c, acts, parent, sibling, dang) ==
    ChildLoop(l, [c EXCEPT !.adj_parents = c.parents], parent, 1,
              PriorZeros(LibL(l), acts))

ChildCall(l, c, acts, parent, sibling, dang) ==
    ChildLoop(l, c, parent, 1, PriorZeros(LibL(l), acts))

(* initial_prior of one constraint object: only LengthConstraint overrides
   Prior.initial_prior *)
ConstraintInitialPrior(l, c) ==
    IF c.type = "length" THEN Ok(LengthInitialPrior(l, c))
    ELSE Ok(PriorInitialPrior(LibL(l)))

(* __call__ of one constraint object *)
ConstraintCall(l, c, acts, parent, sibling, dang) ==
    CASE c.type = "length" -> Ok(LengthCall(l, c, acts, parent, sibling, dang))
      [] c.type \in {"child", "inverse"} ->
            Ok(ChildCall(l, c, acts, parent, sibling, dang))
      [] c.type \in {"descendant", "repeat"} -> Raise("NotImplementedError")

(* JointPrior.initial_prior *)
RECURSIVE JointInitialLoop(_, _, _, _)
JointInitialLoop(l, ps, k, combined) ==
    IF k > Len(ps) THEN Ok(combined)
    ELSE LET one == ConstraintInitialPrior(l, ps[k])
         IN  IF ~one.ok THEN one
             ELSE JointInitialLoop(l, ps, k + 1, VecAdd(combined, one.val))

JointInitialPrior(l, ps) == JointInitialLoop(l, ps, 1, ZerosVec(LibL(l)))

(* JointPrior.__call__: every constraint's mask is computed in registration
   order (the first exception ends the call), then they are summed *)
RECURSIVE JointCallLoop(_, _, _, _, _, _, _, _)
JointCallLoop(l, ps, acts, parent, sibling, dang, k, combined) ==
    IF k > Len(ps) THEN Ok(combined)
    ELSE LET one == ConstraintCall(l, ps[k], acts, parent, sibling, dang)
         IN  IF ~one.ok THEN one
             ELSE JointCallLoop(l, ps, acts, parent, sibling, dang, k + 1,
                                MatAdd(combined, one.val))

(* a variant in which the mask of the last constraint replaces the sum *)
JointCall_LastWins(l, ps, acts, parent, sibling, dang) ==
    IF ps = <<>> THEN Ok(ZerosMat(Len(acts), LibL(l)))
    ELSE LET all == JointCallLoop(l, ps, acts, parent, sibling, dang, 1,
                                  ZerosMat(Len(acts), LibL(l)))
         IN  IF ~all.ok THEN all
             ELSE ConstraintCall(l, ps[Len(ps)], acts, parent, sibling, dang)

JointCall(l, ps, acts, parent, sibling, dang) ==
    JointCallLoop(l, ps, acts, parent, sibling, dang, 1,
                  ZerosMat(Len(acts), LibL(l)))

----------------------------------------------------------------------------
(* make_prior: the constraint objects in config order, or the first
   exception *)

Construct(l, item) ==
    CASE item.type = "length" -> LengthConstraintInit(l, item.min_, item.max_)
      [] item.type = "child" -> ChildConstraintInit(l, item.children, item.parents)
      [] item.type = "descendant" ->
            DescendantConstraintInit(l, item.descendants, item.ancestors)
      [] item.type = "repeat" ->
            RepeatConstraintInit(l, item.tokens, item.min_, item.max_)
      [] item.type = "inverse" -> InverseUnaryConstraintInit(l)

PriorTypes == {"length", "child", "descendant", "repeat", "inverse"}

RECURSIVE MakePriorLoop(_, _, _, _)
MakePriorLoop(l, cfg, k, built) ==
    IF k > Len(cfg) THEN Ok(built)
    ELSE IF cfg[k].type \notin PriorTypes
         THEN Raise("AssertionError: Unrecognized prior type: " \o cfg[k].type)
         ELSE LET one == Construct(l, cfg[k])
              IN  IF ~one.ok THEN one
                  ELSE MakePriorLoop(l, cfg, k + 1, Append(built, one.val))

(* a variant that skips the type names it does not know *)
make_prior_SkipsUnknown(l, cfg) ==
    MakePriorLoop(l, SelectSeq(cfg, LAMBDA item : item.type \in PriorTypes),
                  1, <<>>)

make_prior(l, cfg) == MakePriorLoop(l, cfg, 1, <<>>)

----------------------------------------------------------------------------
(* The sampler's bookkeeping for one row *)

(* a variant that frees two slots per token *)
DanglingUpdate_TwoSlots(d, a) == d + a - 2

(* a variant that fills the slot and opens none *)
DanglingUpdate_OpensNone(d, a) == d - 1

(* the dangling count after placing a token of arity a *)
DanglingUpdate(d, a) == d + a - 1

(* the running dangling count after each token of a sequence, seeded at 1 *)
RECURSIVE DanglingAt(_, _)
DanglingAt(l, toks) ==
    IF toks = <<>> THEN <<>>
    ELSE LET before == DanglingAt(l, SubSeq(toks, 1, Len(toks) - 1))
             d == IF before = <<>> THEN 1 ELSE before[Len(before)]
         IN  Append(before, DanglingUpdate(d, Arities(l)[toks[Len(toks)]]))

(* the stack of open nodes after a prefix: each with its token, its position
   and the number of its children still to place *)
RECURSIVE PopClosed(_)
PopClosed(st) ==
    IF st # <<>> /\ st[Len(st)].rem = 0
    THEN PopClosed(SubSeq(st, 1, Len(st) - 1))
    ELSE st

RECURSIVE OpenStack(_, _)
OpenStack(l, toks) ==
    IF toks = <<>> THEN <<>>
    ELSE LET n == Len(toks)
             st == OpenStack(l, SubSeq(toks, 1, n - 1))
             filled == IF st = <<>> THEN st
                       ELSE [st EXCEPT ![Len(st)].rem = @ - 1]
         IN  PopClosed(Append(filled,
                 [tok |-> toks[n], pos |-> n, rem |-> Arities(l)[toks[n]]]))

(* the adjusted index of the parent of the next token, -1 when there is none *)
ParentInput(l, toks) ==
    LET st == OpenStack(l, toks)
    IN  IF st = <<>> THEN -1 ELSE ParentAdjust(l)[st[Len(st)].tok]

(* the sibling of the next token: the first child of a binary parent whose
   second child comes next, -1 when there is none *)
SiblingInput(l, toks) ==
    LET st == OpenStack(l, toks)
    IN  IF st # <<>> /\ Arities(l)[st[Len(st)].tok] = 2 /\ st[Len(st)].rem = 1
        THEN toks[st[Len(st)].pos + 1]
        ELSE -1

Allowed(m) == {t \in DOMAIN m : m[t].k # "-inf"}

----------------------------------------------------------------------------
(* Actions *)

(* make_prior(library, config_prior) *)
MakePrior ==
    /\ pc = "config"
    /\ LET r == make_prior(lib, config)
       IN  IF r.ok
           THEN /\ priors' = r.val
                /\ pc' = "init"
                /\ UNCHANGED <<err, errAt>>
           ELSE /\ priors' = <<>>
                /\ pc' = "error"
                /\ err' = r.err
                /\ errAt' = "make_prior"
    /\ UNCHANGED <<lib, config, budget, actions, dangling, trajectory, mask>>
    /\ UNCHANGED gpvars

(* joint_prior.initial_prior(), before the first token *)
InitialPrior ==
    /\ pc = "init"
    /\ LET r == JointInitialPrior(lib, priors)
       IN  IF r.ok
           THEN /\ mask' = r.val
                /\ pc' = "choose"
                /\ UNCHANGED <<err, errAt>>
           ELSE /\ pc' = "error"
                /\ err' = r.err
                /\ errAt' = "initial_prior"
                /\ UNCHANGED mask
    /\ UNCHANGED <<lib, config, budget, priors, actions, dangling, trajectory>>
    /\ UNCHANGED gpvars

(* a variant that adds each new mask into the mask of the call before *)
Call_Accumulates ==
    /\ pc = "call"
    /\ LET r == JointCall(lib, priors, <<actions>>,
                          <<ParentInput(lib, actions)>>,
                          <<SiblingInput(lib, actions)>>, <<dangling>>)
       IN  IF r.ok
           THEN /\ mask' = VecAdd(mask, r.val[1])
                /\ pc' = "choose"
                /\ UNCHANGED <<err, errAt>>
           ELSE /\ pc' = "error"
                /\ err' = r.err
                /\ errAt' = "__call__"
                /\ UNCHANGED mask
    /\ UNCHANGED <<lib, config, budget, priors, actions, dangling, trajectory>>
    /\ UNCHANGED gpvars

(* joint_prior(actions, parent, sibling, dangling), before every later token *)
Call ==
    /\ pc = "call"
    /\ LET r == JointCall(lib, priors, <<actions>>,
                          <<ParentInput(lib, actions)>>,
                          <<SiblingInput(lib, actions)>>, <<dangling>>)
       IN  IF r.ok
           THEN /\ mask' = r.val[1]
                /\ pc' = "choose"
                /\ UNCHANGED <<err, errAt>>
           ELSE /\ pc' = "error"
                /\ err' = r.err
                /\ errAt' = "__call__"
                /\ UNCHANGED mask
    /\ UNCHANGED <<lib, config, budget, priors, actions, dangling, trajectory>>
    /\ UNCHANGED gpvars

(* the sampler picks a token the mask leaves at 0, appends it and updates the
   dangling count; the sequence is complete when the count reaches 0 *)
Choose ==
    /\ pc = "choose"
    /\ \E t \in Allowed(mask) :
          LET d == DanglingUpdate(dangling, Arities(lib)[t])
          IN  /\ actions' = Append(actions, t)
              /\ dangling' = d
              /\ trajectory' = Append(trajectory, d)
              /\ pc' = IF d = 0 THEN "done"
                       ELSE IF Len(actions) + 1 >= budget THEN "truncated"
                       ELSE "call"
    /\ UNCHANGED <<lib, config, budget, priors, err, errAt, mask>>
    /\ UNCHANGED gpvars

Next == MakePrior \/ InitialPrior \/ Call \/ Choose

----------------------------------------------------------------------------
(* Initial states *)

(* no validation is running *)
GpIdle ==
    /\ gpc = "idle"
    /\ names = <<>>
    /\ verdict = <<>>
    /\ limits = <<>>
    /\ args = <<>>
    /\ keep_inds = <<>>
    /\ func_out = <<>>
    /\ new_inds = <<>>
    /\ inds = <<>>
    /\ rejected = <<>>
    /\ ret = <<>>
    /\ generator = {}

Start ==
    /\ pc = "config"
    /\ priors = <<>>
    /\ err = ""
    /\ errAt = ""
    /\ actions = <<>>
    /\ dangling = 1
    /\ trajectory = <<>>
    /\ mask = <<>>
    /\ GpIdle

Libraries == {LibOf(S, NTokens) : S \in SUBSET (1..NTokens)}
FullLibrary == SubSeq(JointVocab, 1, NFull)
ChildLibrary == <<"exp", "x1", "add">>

LengthItems(mins, maxs) ==
    [type : {"length"}, min_ : Opt(mins), max_ : Opt(maxs)]

(* the length runs: one LengthConstraint, every library *)
InitLength ==
    /\ lib \in Libraries
    /\ config \in {<<item>> : item \in LengthItems(1..MaxMin, 1..MaxMax)}
    /\ budget = MaxSteps
    /\ Start

SpecLength == InitLength /\ [][Next]_vars

(* the long runs: a LengthConstraint with a maximum only, large enough for
   several steps to lie in the first half *)
LongLibraries == {<<"x1", "add", "exp">>, <<"add", "x1">>}

InitLong ==
    /\ lib \in LongLibraries
    /\ config \in {<<item>> : item \in LengthItems({}, 1..LongMax)}
    /\ budget = LongMax + 1
    /\ Start

SpecLong == InitLong /\ [][Next]_vars

(* lists of token ids of length n *)
Lists(n, L) == [1..n -> 1..L]

ChildItems(pairs, L) ==
    UNION {[type : {"child"}, children : Lists(n, L), parents : Lists(n, L)] :
              n \in pairs}

(* the child runs: one ChildConstraint over the child library *)
InitChild ==
    /\ lib = ChildLibrary
    /\ config \in {<<item>> : item \in ChildItems(0..MaxPairs, Len(ChildLibrary))}
    /\ budget = ChildSteps
    /\ Start

SpecChild == InitChild /\ [][Next]_vars

(* the joint runs: configurations of up to MaxPriors constraint types (a
   dict: no type twice) over the full library, one of them a type name
   make_prior does not know *)
JointMenu ==
    LET L == Len(FullLibrary)
    IN  LengthItems({JointMin}, {JointMax})
        \cup ChildItems({0, 1}, L)
        \cup [type : {"descendant"},
              descendants : {<<t>> : t \in TerminalTokens(FullLibrary)},
              ancestors : {<<t>> : t \in BinaryTokens(FullLibrary)}]
        \cup [type : {"repeat"}, tokens : {<<1>>},
              min_ : Opt({1}), max_ : Opt({1})]
        \cup {[type |-> "inverse"], [type |-> "soft_length"]}

RECURSIVE Configs(_)
Configs(n) ==
    IF n = 0 THEN {<<>>}
    ELSE LET shorter == Configs(n - 1)
         IN  shorter \cup
             {Append(cfg, item) : cfg \in {c \in shorter : Len(c) = n - 1},
                                  item \in JointMenu}

DistinctTypes(cfg) ==
    \A j, k \in 1..Len(cfg) : cfg[j].type = cfg[k].type => j = k

Init ==
    /\ lib = FullLibrary
    /\ config \in {cfg \in Configs(MaxPriors) : DistinctTypes(cfg)}
    /\ budget = JointSteps
    /\ Start

Spec == Init /\ [][Next]_vars

----------------------------------------------------------------------------
(* Properties *)

(* the registered constraint objects of one type *)
Registered(type) == {priors[k] : k \in {j \in 1..Len(priors) : priors[j].type = type}}

Last(s) == s[Len(s)]

(* the mask in `mask` answers the initial request / a step request *)
AtInitialMask == pc = "choose" /\ actions = <<>>
AtStepMask == pc = "choose" /\ actions # <<>>

(* C1: in masked generation the dangling count is >= 0 after every prefix,
   is 0 after the last token of a completed sequence, and is 0 at no
   earlier position: a sequence is complete exactly when the count has
   reached 0, and no token follows. *)
C1_DanglingTrajectory ==
    /\ Len(trajectory) = Len(actions)
    /\ dangling >= 0
    /\ dangling = (IF trajectory = <<>> THEN 1 ELSE Last(trajectory))
    /\ \A k \in 1..Len(trajectory) : trajectory[k] >= 0
    /\ \A k \in 1..(Len(trajectory) - 1) : trajectory[k] # 0
    /\ pc = "done" <=> (trajectory # <<>> /\ Last(trajectory) = 0)

(* a sequence of several tokens, with a nested binary token, is complete *)
C1_Witness ==
    /\ pc = "done"
    /\ Len(actions) >= 5
    /\ \E k \in 1..Len(trajectory) : trajectory[k] >= 3
    /\ Last(trajectory) = 0

(* C2: with max_ = M, for every M >= 1, no sequence completed through
   masked generation has more than M tokens. *)
C2_MaxLengthAnyM ==
    \A c \in Registered("length") :
        (~IsNone(c.max) /\ pc = "done") => Len(actions) <= Val(c.max)

(* for M >= 3 no completed sequence has more than M tokens, and no state
   has M tokens chosen and dangling > 0 *)
MaxLengthFrom3 ==
    \A c \in Registered("length") :
        (~IsNone(c.max) /\ Val(c.max) >= 3) =>
            /\ pc = "done" => Len(actions) <= Val(c.max)
            /\ ~(Len(actions) = Val(c.max) /\ dangling > 0)

(* C3: with min_ = m, no sequence completed through masked generation has
   fewer than m tokens. *)
C3_MinLength ==
    \A c \in Registered("length") :
        (~IsNone(c.min) /\ pc = "done") => Len(actions) >= Val(c.min)

(* a sequence completes with exactly min_ = MaxMin tokens, after the min_
   rule has forbidden the terminals at an earlier step *)
C3_Witness ==
    /\ pc = "done"
    /\ \E c \in Registered("length") :
          /\ c.min = Some(MaxMin)
          /\ Len(actions) = MaxMin
    /\ \E k \in 1..(Len(trajectory) - 1) : trajectory[k] = 1

(* C4: LengthConstraint.initial_prior is -inf at exactly the terminal tokens
   and 0 at every other token, whatever min_ and max_ are. *)
C4_InitialPriorTerminals ==
    /\ \A c \in Registered("length") :
          LengthInitialPrior(lib, c) =
              [t \in 1..Len(lib) |-> IF Arity(lib[t]) = 0 THEN NegInf ELSE Zero]
    /\ AtInitialMask =>
          \A t \in 1..Len(lib) :
              mask[t] = (IF Arity(lib[t]) = 0 THEN NegInf ELSE Zero)

(* the initial mask of a constraint with min_ = 1 and max_ = 1 over a library
   with terminals and operators *)
C4_Witness ==
    /\ AtInitialMask
    /\ \E c \in Registered("length") : c.min = Some(1) /\ c.max = Some(1)
    /\ \E t, u \in 1..Len(lib) : mask[t] = NegInf /\ mask[u] = Zero

(* C5: with only min_ set, the step mask forbids a terminal token if and
   only if (i + 2) < min_ and dangling = 1, where i + 1 tokens have been
   chosen, and leaves every non-terminal token at 0. *)
C5_MinStepMask ==
    \A c \in Registered("length") :
        (AtStepMask /\ ~IsNone(c.min) /\ IsNone(c.max)) =>
            LET i == Len(actions) - 1
            IN  \A t \in 1..Len(lib) :
                    mask[t] = (IF /\ Arity(lib[t]) = 0
                                  /\ (i + 2) < Val(c.min)
                                  /\ dangling = 1
                               THEN NegInf ELSE Zero)

(* min_ = 4, after a binary token and a terminal (dangling 1 -> 2 -> 1):
   both terminals are forbidden, both operators are allowed *)
C5_Witness ==
    /\ AtStepMask
    /\ lib = <<"x1", "const", "add", "exp">>
    /\ \E c \in Registered("length") : c.min = Some(4) /\ IsNone(c.max)
    /\ actions = <<3, 1>>
    /\ trajectory = <<2, 1>>
    /\ mask = <<NegInf, NegInf, Zero, Zero>>

(* C6: the step mask of a ChildConstraint is -inf at token c if and only if
   some pair k has children[k] = c and the row's current parent equals the
   adjusted index of parents[k]; every other cell is 0. *)
C6_ChildStepMask ==
    \A c \in Registered("child") :
        AtStepMask =>
            \A t \in 1..Len(lib) :
                mask[t] =
                    (IF \E k \in 1..Len(c.children) :
                           /\ c.children[k] = t
                           /\ ParentInput(lib, actions) =
                                  ParentAdjust(lib)[c.parents[k]]
                     THEN NegInf ELSE Zero)

(* two pairs with different parents: the row's parent matches one of them,
   whose child alone is forbidden *)
C6_Witness ==
    /\ AtStepMask
    /\ \E c \in Registered("child") :
          /\ Len(c.children) = 2
          /\ c.parents[1] # c.parents[2]
          /\ c.children[1] # c.children[2]
          /\ mask[c.children[1]] = NegInf
          /\ mask[c.children[2]] = Zero
    /\ Len(actions) = 2

(* a row whose parent matches no configured parent gets an all-zero row *)
C6_WitnessZeroRow ==
    /\ AtStepMask
    /\ \E c \in Registered("child") : Len(c.children) = 2
    /\ \A t \in 1..Len(lib) : mask[t] = Zero

(* C7: constructing a ChildConstraint fails whenever a listed parent is a
   terminal, so no ChildConstraint with a terminal parent ever exists. *)
C7_TerminalParentRejected ==
    /\ \A k \in 1..Len(config) :
          (/\ config[k].type = "child"
           /\ \E j \in 1..Len(config[k].parents) :
                 Arity(lib[config[k].parents[j]]) = 0
           /\ pc # "config")
          => (pc = "error" /\ errAt = "make_prior")
    /\ \A c \in Registered("child") :
          \A j \in 1..Len(c.parents) : Arity(lib[c.parents[j]]) > 0

(* constructing a ChildConstraint fails exactly when no parent is listed *)
ChildFailsOnEmptyOnly ==
    \A k \in 1..Len(config) :
        config[k].type = "child" =>
            (Construct(lib, config[k]).ok <=> Len(config[k].parents) > 0)

Unimplemented == Registered("repeat") \cup Registered("descendant")

(* C8: every mask request that reaches a RepeatConstraint or a
   DescendantConstraint fails, the initial mask included: a JointPrior
   holding one never returns a mask. *)
C8_UnimplementedAlwaysFail ==
    Unimplemented # {} => (pc \in {"init", "error"} /\ mask = <<>>)

(* the step mask of a JointPrior holding one of them always fails *)
UnimplementedCallFails ==
    Unimplemented # {} =>
        /\ ~AtStepMask
        /\ Len(actions) <= 1
        /\ pc = "error" => (errAt = "__call__" /\ err = "NotImplementedError")

BothNone(item) == IsNone(item.min_) /\ IsNone(item.max_)
AtLeastOneMsg == "AssertionError: At least one of (min_, max_) must not be None."

(* C9: constructing a LengthConstraint or a RepeatConstraint fails when min_
   and max_ are both absent and succeeds when one is supplied; the failure
   happens in make_prior, before any mask is computed. *)
C9_NeedsOneBound ==
    /\ \A k \in 1..Len(config) :
          config[k].type \in {"length", "repeat"} =>
              /\ Construct(lib, config[k]).ok <=> ~BothNone(config[k])
              /\ ~Construct(lib, config[k]).ok =>
                    Construct(lib, config[k]).err = AtLeastOneMsg
              /\ BothNone(config[k]) =>
                    /\ pc \in {"config", "error"}
                    /\ priors = <<>>
                    /\ mask = <<>>
                    /\ pc = "error" => errAt = "make_prior"
    /\ (/\ pc # "config"
        /\ \A k \in 1..Len(config) :
              config[k].type \in {"length", "repeat"} /\ ~BothNone(config[k]))
       => (errAt # "make_prior" /\ Len(priors) = Len(config))

(* make_prior has failed on a LengthConstraint without bounds that follows a
   constraint that was built *)
C9_Witness ==
    /\ pc = "error"
    /\ errAt = "make_prior"
    /\ err = AtLeastOneMsg
    /\ Len(config) = 2
    /\ config[1].type = "repeat" /\ ~BothNone(config[1])
    /\ config[2].type = "length" /\ BothNone(config[2])
    /\ mask = <<>>

(* a RepeatConstraint and a LengthConstraint with one bound each are built *)
C9_WitnessBuilt ==
    /\ Len(priors) = 2
    /\ priors[1].type = "repeat" /\ IsNone(priors[1].min)
    /\ priors[2].type = "length" /\ IsNone(priors[2].max)

UnknownAt(k) == config[k].type \notin PriorTypes
UnknownMsg(k) == "AssertionError: Unrecognized prior type: " \o config[k].type

(* C10: make_prior fails with an error naming the unrecognized type whenever
   the configuration holds a type name it does not know, and returns no
   JointPrior; a JointPrior that make_prior returned never fails in
   initial_prior or __call__. *)
C10_FailFast ==
    /\ \A k \in 1..Len(config) :
          (UnknownAt(k) /\ pc # "config") =>
              /\ pc = "error" /\ errAt = "make_prior" /\ priors = <<>>
              /\ err = UnknownMsg(k)
    /\ errAt \notin {"initial_prior", "__call__"}

(* C10 as amended: make_prior returns no JointPrior whenever the
   configuration holds a type name it does not know; the error names that
   type unless an earlier item failed to construct; a JointPrior that
   make_prior returned never fails in initial_prior, and its __call__ fails
   exactly when it holds a descendant or a repeat constraint. *)
C10_FailFastAmended ==
    /\ \A k \in 1..Len(config) :
          (UnknownAt(k) /\ pc # "config") =>
              /\ pc = "error" /\ errAt = "make_prior" /\ priors = <<>>
              /\ (\A j \in 1..(k - 1) : Construct(lib, config[j]).ok)
                     => err = UnknownMsg(k)
    /\ errAt # "initial_prior"
    /\ errAt = "__call__" => (Unimplemented # {} /\ err = "NotImplementedError")
    /\ AtStepMask => Unimplemented = {}

(* make_prior has failed on an unknown type that follows a constraint that
   was built, and names it *)
C10_Witness ==
    /\ pc = "error"
    /\ errAt = "make_prior"
    /\ Len(config) = 2
    /\ config[1].type = "length" /\ ~BothNone(config[1])
    /\ config[2].type = "soft_length"
    /\ err = "AssertionError: Unrecognized prior type: soft_length"
    /\ priors = <<>>

(* the batch runs: on one library, a LengthConstraint, a ChildConstraint
   and an InverseUnaryConstraint, alone and together *)
RowsLibrary == <<"add", "exp", "x1", "log">>

RowsConfigs ==
    LET len == [type |-> "length", min_ |-> Some(2), max_ |-> Some(5)]
        child == [type |-> "child",
                  children |-> <<IndexOf(RowsLibrary, "x1")>>,
                  parents |-> <<IndexOf(RowsLibrary, "add")>>]
        inv == [type |-> "inverse"]
    IN  {<<len>>, <<child>>, <<inv>>, <<len, child>>, <<len, inv>>,
         <<child, inv>>, <<len, child, inv>>}

InitRows ==
    /\ lib = RowsLibrary
    /\ config \in RowsConfigs
    /\ budget = 5
    /\ Start

SpecRows == InitRows /\ [][Next]_vars

----------------------------------------------------------------------------
(* Properties of the joint mask *)

(* the permutations of 1..n, and a list reordered by one *)
Perms(n) == {p \in [1..n -> 1..n] : \A i, j \in 1..n : p[i] = p[j] => i = j}
Permuted(s, p) == [i \in 1..Len(s) |-> s[p[i]]]

(* the step mask of the registered constraints in the order ps, for the
   row's current inputs *)
StepMaskOf(ps) ==
    JointCall(lib, ps, <<actions>>, <<ParentInput(lib, actions)>>,
              <<SiblingInput(lib, actions)>>, <<dangling>>)

(* C11: JointPrior.initial_prior and JointPrior.__call__ return the same
   result for every order in which the same constraints are registered. *)
C11_OrderIndependent ==
    \A p \in Perms(Len(priors)) :
        /\ AtInitialMask => JointInitialPrior(lib, Permuted(priors, p)) = Ok(mask)
        /\ AtStepMask => StepMaskOf(Permuted(priors, p)) = Ok(<<mask>>)
        /\ (pc = "error" /\ errAt = "__call__")
              => StepMaskOf(Permuted(priors, p)) = Raise(err)

(* two registered constraints whose own step masks differ, both forbidding
   something *)
C11_Witness ==
    /\ AtStepMask
    /\ Len(priors) = 2
    /\ LET a == StepMaskOf(<<priors[1]>>)
           b == StepMaskOf(<<priors[2]>>)
       IN  /\ a.ok /\ b.ok
           /\ a # b
           /\ \E t \in 1..Len(lib) : a.val[1][t] = NegInf /\ b.val[1][t] = Zero
           /\ \E t \in 1..Len(lib) : b.val[1][t] = NegInf /\ a.val[1][t] = Zero

Cells(m) == {m[t] : t \in DOMAIN m}

(* C12: every cell of every mask, of each registered constraint and of the
   JointPrior, is 0 or -inf, however many constraints forbid the cell. *)
C12_ZeroOrNegInf ==
    /\ Cells(mask) \subseteq {Zero, NegInf}
    /\ \A k \in 1..Len(priors) :
          /\ AtInitialMask =>
                 Cells(ConstraintInitialPrior(lib, priors[k]).val)
                     \subseteq {Zero, NegInf}
          /\ AtStepMask =>
                 Cells(StepMaskOf(<<priors[k]>>).val[1]) \subseteq {Zero, NegInf}

(* two registered constraints forbid the same token in the same row *)
C12_Witness ==
    /\ AtStepMask
    /\ Len(priors) = 2
    /\ \E t \in 1..Len(lib) :
          /\ StepMaskOf(<<priors[1]>>).val[1][t] = NegInf
          /\ StepMaskOf(<<priors[2]>>).val[1][t] = NegInf
          /\ mask[t] = NegInf

(* C16: with an InverseUnaryConstraint registered, whenever the row's
   current parent is a token t with a registered inverse, the step mask is
   -inf at inv(t), and no sequence holds t immediately followed by inv(t). *)
C16_NoInverseChild ==
    Registered("inverse") # {} =>
        /\ AtStepMask =>
              \A t \in InverseKeys(lib) :
                  ParentInput(lib, actions) = ParentAdjust(lib)[t]
                      => mask[InverseOf(lib, t)] = NegInf
        /\ \A k \in 1..(Len(actions) - 1) :
              actions[k] \in InverseKeys(lib)
                  => actions[k + 1] # InverseOf(lib, actions[k])

(* after add, exp the parent is exp and log is forbidden *)
C16_Witness ==
    /\ AtStepMask
    /\ Registered("inverse") # {}
    /\ Len(actions) = 2
    /\ lib[Last(actions)] = "exp"
    /\ ParentInput(lib, actions) = ParentAdjust(lib)[Last(actions)]
    /\ mask[IndexOf(lib, "log")] = NegInf
    /\ mask[IndexOf(lib, "exp")] = Zero

(* the inputs another batch row may hold *)
OtherRows ==
    [parent : -1..(MaxOther - 1), sibling : -1..MaxOther, dang : 1..MaxOther]

(* the step mask of a batch of two rows: the current row and another *)
TwoRowMask(ps, o, first) ==
    IF first
    THEN JointCall(lib, ps, <<actions, actions>>,
                   <<ParentInput(lib, actions), o.parent>>,
                   <<SiblingInput(lib, actions), o.sibling>>,
                   <<dangling, o.dang>>)
    ELSE JointCall(lib, ps, <<actions, actions>>,
                   <<o.parent, ParentInput(lib, actions)>>,
                   <<o.sibling, SiblingInput(lib, actions)>>,
                   <<o.dang, dangling>>)

(* C18: the row of a step mask, of the JointPrior and of each constraint,
   depends on that row's parent, sibling and dangling only: whatever the
   other row of the batch holds, it is the mask the row gets alone. *)
C18_RowsIndependent ==
    AtStepMask =>
        \A o \in OtherRows :
            /\ TwoRowMask(priors, o, TRUE) = Ok(<<mask, TwoRowMask(priors, o, FALSE).val[1]>>)
            /\ TwoRowMask(priors, o, FALSE).val[2] = mask
            /\ \A k \in 1..Len(priors) :
                  TwoRowMask(<<priors[k]>>, o, TRUE).val[1] =
                      StepMaskOf(<<priors[k]>>).val[1]

(* the other row gets a different mask than the current row *)
C18_Witness ==
    /\ AtStepMask
    /\ \E t \in 1..Len(lib) : mask[t] = NegInf
    /\ \E o \in OtherRows :
          /\ TwoRowMask(priors, o, TRUE).val[1] = mask
          /\ TwoRowMask(priors, o, TRUE).val[2] # mask
          /\ \A t \in 1..Len(lib) : TwoRowMask(priors, o, TRUE).val[2][t] = Zero

(* the mask a freshly built JointPrior returns for the current inputs *)
FreshMask ==
    LET ps == make_prior(lib, config).val
    IN  IF actions = <<>> THEN JointInitialPrior(lib, ps).val
        ELSE JointCall(lib, ps, <<actions>>, <<ParentInput(lib, actions)>>,
                       <<SiblingInput(lib, actions)>>, <<dangling>>).val[1]

(* what a mask request, initial or at a step, does to the state *)
C19_MaskRequest ==
    pc \in {"init", "call"} =>
        /\ UNCHANGED <<lib, config, priors, actions, dangling, trajectory>>
        /\ priors = make_prior(lib, config).val
        /\ pc' = "choose" => mask' = FreshMask

(* C19: computing a mask leaves its inputs, the library and the
   constraints' configuration unchanged, and keeps no state between calls:
   the mask returned is the one a freshly built JointPrior returns. *)
C19_NoSideEffects == [][C19_MaskRequest]_vars

(* a second step mask that differs from the first step mask *)
C19_Witness ==
    /\ AtStepMask
    /\ Len(actions) = 2
    /\ mask = FreshMask
    /\ \E t \in 1..Len(lib) : mask[t] = NegInf
    /\ LET one == <<actions[1]>>
       IN  mask # JointCall(lib, priors, <<one>>, <<ParentInput(lib, one)>>,
                            <<SiblingInput(lib, one)>>,
                            <<Last(DanglingAt(lib, one))>>).val[1]

(* the configured maximum of the single LengthConstraint *)
MaxOfRun == Val(priors[1].max)

(* C20: skipping the maximum-length rules in the first half loses no
   forbid: whenever (i + 2) < max // 2 the dangling count is below
   remaining - 1, so neither rule would fire; and for max >= 3 the dangling
   count never exceeds remaining. *)
C20_FirstHalfSafe ==
    (priors # <<>> /\ pc \in {"call", "choose", "done"}) =>
        LET i == Len(actions) - 1
            remaining == MaxOfRun - (i + 1)
        IN  /\ (actions # <<>> /\ (i + 2) < (MaxOfRun \div 2))
                  => dangling < remaining - 1
            /\ MaxOfRun >= 3 => dangling <= remaining

(* a first-half step past the first token, with as many open slots as two
   tokens can open *)
C20_Witness ==
    /\ pc = "call"
    /\ Len(actions) = 2
    /\ (Len(actions) + 1) < (MaxOfRun \div 2)
    /\ dangling = 3
    /\ dangling < MaxOfRun - Len(actions) - 1

(* the bound of the second half is met: as many open slots as tokens left *)
C20_WitnessTight ==
    /\ pc = "choose"
    /\ actions # <<>>
    /\ MaxOfRun >= 3
    /\ dangling = MaxOfRun - Len(actions)
    /\ dangling >= 3

----------------------------------------------------------------------------
(* Validation of whole trees (gp/symbolic_math.py) *)

(* the primitive set of the validation runs, and the names check_inv sees *)
GpVocab == <<"x1", "sin", "cos", "exp", "log", "add">>
GpNames == {GpVocab[i] : i \in DOMAIN GpVocab}
InvNames == GpNames \cup {"neg", "arcsin"}

(* dsr.functions: the names of the unary and of the binary operators *)
UNARY_TOKENS == {n \in GpNames \cup {"neg"} : Arity(n) = 1}
BINARY_TOKENS == {n \in GpNames : Arity(n) = 2}
TrigNames == {TRIG_TOKENS[i] : i \in DOMAIN TRIG_TOKENS}

(* names[i] has an inverse in the table and names[i+1] is that inverse *)
InvAt(s, i) ==
    s[i] \in DOMAIN INVERSE_TOKENS /\ s[i + 1] = INVERSE_TOKENS[s[i]]

(* check_inv: some name of names[:-1] is followed by its inverse *)
check_inv(s) == \E i \in 1..(Len(s) - 1) : InvAt(s, i)

(* check_trig's loop variables before the first name *)
TrigStart == [found |-> FALSE, trig_descendant |-> FALSE, trig_dangling |-> 0]

(* a loop body in which a unary name closes a slot as a terminal does *)
TrigStep_UnaryCloses(st, name) ==
    IF name \in TrigNames
    THEN IF st.trig_descendant THEN [st EXCEPT !.found = TRUE]
         ELSE [found |-> FALSE, trig_descendant |-> TRUE, trig_dangling |-> 1]
    ELSE IF st.trig_descendant
         THEN LET d == IF name \in BINARY_TOKENS THEN st.trig_dangling + 1
                       ELSE st.trig_dangling - 1
              IN  [found |-> FALSE, trig_descendant |-> d # 0, trig_dangling |-> d]
         ELSE st

(* one pass of check_trig's loop body; found: the function returns True *)
TrigStep(st, name) ==
    IF name \in TrigNames
    THEN IF st.trig_descendant THEN [st EXCEPT !.found = TRUE]
         ELSE [found |-> FALSE, trig_descendant |-> TRUE, trig_dangling |-> 1]
    ELSE IF st.trig_descendant
         THEN LET d == IF name \in BINARY_TOKENS THEN st.trig_dangling + 1
                       ELSE IF name \notin UNARY_TOKENS THEN st.trig_dangling - 1
                       ELSE st.trig_dangling
              IN  [found |-> FALSE, trig_descendant |-> d # 0, trig_dangling |-> d]
         ELSE st

RECURSIVE TrigLoop(_, _, _)
TrigLoop(s, k, st) ==
    IF k > Len(s) THEN FALSE
    ELSE LET nxt == TrigStep(st, s[k])
         IN  IF nxt.found THEN TRUE ELSE TrigLoop(s, k + 1, nxt)

check_trig(s) == TrigLoop(s, 1, TrigStart)

(* the open slots after the names i..j of a sequence, one being open before *)
RECURSIVE OpenFrom(_, _, _)
OpenFrom(s, i, j) ==
    IF j < i THEN 1 ELSE OpenFrom(s, i, j - 1) + Arity(s[j]) - 1

(* a prefix-order sequence that encodes exactly one tree *)
WellFormed(s) ==
    /\ Len(s) >= 1
    /\ \A k \in 1..Len(s) : s[k] \in GpNames
    /\ \A k \in 1..(Len(s) - 1) : OpenFrom(s, 1, k) >= 1
    /\ OpenFrom(s, 1, Len(s)) = 0

(* the position of the last node of the subtree rooted at position i *)
SubtreeEnd(s, i) ==
    CHOOSE j \in i..Len(s) :
        /\ OpenFrom(s, i, j) = 0
        /\ \A k \in i..(j - 1) : OpenFrom(s, i, k) >= 1

(* the trees of up to n nodes over the primitive set, and the name
   sequences of up to n names *)
TreesUpTo(n) ==
    UNION {{s \in [1..m -> GpNames] : WellFormed(s)} : m \in 1..n}
SeqsUpTo(n) == UNION {[1..m -> InvNames] : m \in 0..n}

NameInputs == SeqsUpTo(MaxNames) \cup TreesUpTo(MaxTree)

(* the prior side is not running *)
PriorIdle ==
    /\ lib = <<>>
    /\ config = <<>>
    /\ budget = 0
    /\ pc = "idle"
    /\ priors = <<>>
    /\ err = ""
    /\ errAt = ""
    /\ actions = <<>>
    /\ dangling = 1
    /\ trajectory = <<>>
    /\ mask = <<>>

(* check_inv(names) *)
CheckInv ==
    /\ gpc = "check"
    /\ verdict' = [fn |-> "check_inv", val |-> check_inv(names)]
    /\ gpc' = "checked"
    /\ UNCHANGED <<names, limits, args, keep_inds, func_out, new_inds, inds,
                   rejected, ret, generator>>
    /\ UNCHANGED priorvars

(* check_trig(names) *)
CheckTrig ==
    /\ gpc = "check"
    /\ verdict' = [fn |-> "check_trig", val |-> check_trig(names)]
    /\ gpc' = "checked"
    /\ UNCHANGED <<names, limits, args, keep_inds, func_out, new_inds, inds,
                   rejected, ret, generator>>
    /\ UNCHANGED priorvars

(* the name runs: one of the two checks applied to one name sequence *)
InitNames ==
    /\ PriorIdle
    /\ names \in NameInputs
    /\ gpc = "check"
    /\ verdict = <<>>
    /\ limits = <<>>
    /\ args = <<>>
    /\ keep_inds = <<>>
    /\ func_out = <<>>
    /\ new_inds = <<>>
    /\ inds = <<>>
    /\ rejected = <<>>
    /\ ret = <<>>
    /\ generator = {}

NextNames == CheckInv \/ CheckTrig

SpecNames == InitNames /\ [][NextNames]_vars

(* a trigonometric name lies inside the subtree of another one *)
NestedTrig(s) ==
    \E i \in 1..Len(s) :
        /\ s[i] \in TrigNames
        /\ \E j \in (i + 1)..SubtreeEnd(s, i) : s[j] \in TrigNames

Returned(fn) == gpc = "checked" /\ verdict.fn = fn

(* C14: on a well-formed prefix-order sequence over names of arity 0, 1
   and 2, check_trig returns True exactly when a trigonometric token is a
   proper descendant of another trigonometric token. *)
C14_CheckTrigNested ==
    (Returned("check_trig") /\ WellFormed(names)) =>
        /\ verdict.val = NestedTrig(names)
        /\ names = <<"sin", "cos", "x1">> => verdict.val = TRUE
        /\ names = <<"sin", "x1">> => verdict.val = FALSE
        /\ names = <<"add", "sin", "x1", "cos", "x1">> => verdict.val = FALSE

(* two trig tokens in disjoint subtrees: False *)
C14_Witness ==
    /\ Returned("check_trig")
    /\ names = <<"add", "sin", "x1", "cos", "x1">>
    /\ ~NestedTrig(names)
    /\ WellFormed(names)
    /\ verdict.val = FALSE

C14_WitnessNested ==
    /\ Returned("check_trig")
    /\ names = <<"sin", "add", "x1", "cos", "x1">>
    /\ verdict.val = TRUE

(* the pairs of the code's table, written out: each with its reverse *)
InversePairs ==
    LET oneWay == {<<"exp", "log">>, <<"neg", "neg">>, <<"inv", "inv">>,
                   <<"sqrt", "n2">>}
                  \cup {<<t, "arc" \o t>> : t \in TrigNames}
    IN  oneWay \cup {<<q[2], q[1]>> : q \in oneWay}

Reverse(s) == [i \in 1..Len(s) |-> s[Len(s) + 1 - i]]

(* C15: check_inv returns True exactly when some name is immediately
   followed by its registered inverse; the table is symmetric, so the
   result is the same whichever token of a pair comes first. *)
C15_CheckInvAdjacent ==
    /\ \A t \in DOMAIN INVERSE_TOKENS :
          /\ INVERSE_TOKENS[t] \in DOMAIN INVERSE_TOKENS
          /\ INVERSE_TOKENS[INVERSE_TOKENS[t]] = t
    /\ Returned("check_inv") =>
          /\ verdict.val =
                 (\E i \in 1..(Len(names) - 1) :
                      <<names[i], names[i + 1]>> \in InversePairs)
          /\ verdict.val = check_inv(Reverse(names))

(* log then exp: found through the reverse entry of the table *)
C15_Witness ==
    /\ Returned("check_inv")
    /\ names = <<"add", "log", "exp">>
    /\ verdict.val = TRUE

----------------------------------------------------------------------------
(* The decorators checkConstraint and popConstraint *)

(* deap's PrimitiveTree.height: the depth of the deepest node, the root
   being at depth 0 *)
RECURSIVE HeightLoop(_, _, _, _)
HeightLoop(s, k, stack, max_depth) ==
    IF k > Len(s) \/ stack = <<>> THEN max_depth
    ELSE LET depth == stack[Len(stack)]
             rest == SubSeq(stack, 1, Len(stack) - 1)
             kids == [c \in 1..Arity(s[k]) |-> depth + 1]
         IN  HeightLoop(s, k + 1, rest \o kids,
                        IF depth > max_depth THEN depth ELSE max_depth)

height(s) == HeightLoop(s, 1, <<0>>, 0)

(* a chain of checks without the depth test *)
Replaced_NoDepth(s, lim) ==
    \/ Len(s) > lim.max_length
    \/ Len(s) < lim.min_length
    \/ check_inv(s)
    \/ check_trig(s)

(* checkConstraint's if/elif chain: the output is replaced *)
Replaced(s, lim) ==
    \/ Len(s) > lim.max_length
    \/ Len(s) < lim.min_length
    \/ height(s) > lim.max_depth
    \/ check_inv(s)
    \/ check_trig(s)

(* individuals are tagged with the object they are: the j-th argument, the
   deep copy of the j-th argument, or the i-th output of the operator *)
Individual(from, at, s) == [from |-> from, at |-> at, names |-> s]
Tagged(from, trees) == [i \in 1..Len(trees) |-> Individual(from, i, trees[i])]

(* keep_inds = [copy.deepcopy(ind) for ind in args] *)
DeepCopies(inds_in) ==
    [j \in 1..Len(inds_in) |-> Individual("copy", j, inds_in[j].names)]

(* the wrapper's loop over the operator's output; pick[i] is what
   random.choice draws at position i *)
CheckConstraintLoop(out, keep, pick, lim) ==
    [i \in 1..Len(out) |->
        IF Replaced(out[i].names, lim) THEN keep[pick[i]] ELSE out[i]]

(* the operators take one individual (mutation) or two (crossover) and
   return as many *)
OperatorTrees == TreesUpTo(MaxOut)
OperatorOutputs ==
    {<<a>> : a \in OperatorTrees}
    \cup {<<a, b>> : a \in OperatorTrees, b \in OperatorTrees}

GpArgs ==
    {Tagged("arg", <<<<"add", "x1", "x1">>>>),
     Tagged("arg", <<<<"add", "x1", "x1">>, <<"exp", "x1">>>>)}

GpLimits ==
    {[max_length |-> 2, min_length |-> 1, max_depth |-> 1],
     [max_length |-> 3, min_length |-> 2, max_depth |-> 1],
     [max_length |-> 3, min_length |-> 1, max_depth |-> 2]}

(* one call of an operator wrapped by checkConstraint *)
CheckConstraintCall ==
    /\ gpc = "call"
    /\ \E out \in OperatorOutputs :
          \E pick \in [1..Len(out) -> 1..Len(args)] :
              /\ keep_inds' = DeepCopies(args)
              /\ func_out' = Tagged("func", out)
              /\ new_inds' = CheckConstraintLoop(Tagged("func", out),
                                                 DeepCopies(args), pick, limits)
    /\ gpc' = "returned"
    /\ UNCHANGED <<names, verdict, limits, args, inds, rejected, ret, generator>>
    /\ UNCHANGED priorvars

InitCheck ==
    /\ PriorIdle
    /\ gpc = "call"
    /\ limits \in GpLimits
    /\ args \in GpArgs
    /\ names = <<>>
    /\ verdict = <<>>
    /\ keep_inds = <<>>
    /\ func_out = <<>>
    /\ new_inds = <<>>
    /\ inds = <<>>
    /\ rejected = <<>>
    /\ ret = <<>>
    /\ generator = {}

SpecCheck == InitCheck /\ [][CheckConstraintCall]_vars

(* a test that looks for inverse pairs only *)
PopRejects_InvOnly(s) == check_inv(s)

(* a test that looks for nested trig tokens only *)
PopRejects_TrigOnly(s) == check_trig(s)

(* popConstraint's test: the candidate is dropped and the loop continues *)
PopRejects(s) == check_inv(s) \/ check_trig(s)

PopCandidates == TreesUpTo(PopTree)

(* one pass of popConstraint's while loop: generate, validate, return or
   go round again *)
PopAttempt ==
    /\ gpc = "loop"
    /\ \E cand \in generator :
          /\ inds' = cand
          /\ IF PopRejects(cand)
             THEN /\ gpc' = "loop"
                  /\ rejected' = cand
                  /\ UNCHANGED ret
             ELSE /\ gpc' = "returned"
                  /\ ret' = cand
                  /\ UNCHANGED rejected
    /\ UNCHANGED <<names, verdict, limits, args, keep_inds, func_out, new_inds,
                   generator>>
    /\ UNCHANGED priorvars

InitPop ==
    /\ PriorIdle
    /\ gpc = "loop"
    /\ names = <<>>
    /\ verdict = <<>>
    /\ limits = <<>>
    /\ args = <<>>
    /\ keep_inds = <<>>
    /\ func_out = <<>>
    /\ new_inds = <<>>
    /\ inds = <<>>
    /\ rejected = <<>>
    /\ ret = <<>>
    /\ generator = PopCandidates

SpecPop == InitPop /\ [][PopAttempt]_vars

(* the five checks, each as the claim states it *)
PassesAll(s, lim) ==
    /\ Len(s) <= lim.max_length
    /\ Len(s) >= lim.min_length
    /\ height(s) <= lim.max_depth
    /\ ~check_inv(s)
    /\ ~check_trig(s)

(* C13: each individual checkConstraint returns is either the operator's
   own output at that position, and then passes all five checks, or one of
   the deep copies of the operator's inputs; an output that fails a check
   is returned at no position; the list is as long as the operator's
   output. *)
C13_ValidOrCopy ==
    (gpc = "returned" /\ func_out # <<>>) =>
        /\ Len(new_inds) = Len(func_out)
        /\ Len(keep_inds) = Len(args)
        /\ \A j \in 1..Len(args) :
              keep_inds[j].from = "copy" /\ keep_inds[j].names = args[j].names
        /\ \A i \in 1..Len(new_inds) :
              \/ new_inds[i] = func_out[i] /\ PassesAll(func_out[i].names, limits)
              \/ \E j \in 1..Len(keep_inds) : new_inds[i] = keep_inds[j]
        /\ \A i \in 1..Len(func_out) :
              ~PassesAll(func_out[i].names, limits)
                  => \A k \in 1..Len(new_inds) : new_inds[k] # func_out[i]

(* of two outputs the first is too deep only and replaced by the copy of the
   second input, the second passes and is returned *)
C13_Witness ==
    /\ gpc = "returned"
    /\ Len(func_out) = 2
    /\ func_out[1].names = <<"exp", "exp", "x1">>
    /\ limits = [max_length |-> 3, min_length |-> 2, max_depth |-> 1]
    /\ Len(keep_inds) = 2
    /\ new_inds[1] = keep_inds[2]
    /\ new_inds[2] = func_out[2]

(* C17: popConstraint returns only a candidate that passed validation (for
   which check_inv and check_trig are both False), the one generated last;
   after a rejected candidate it goes round again. *)
C17_PopReturnsValid ==
    /\ gpc = "returned" =>
          /\ ret = inds
          /\ ~check_inv(ret)
          /\ ~check_trig(ret)
          /\ ret # rejected
    /\ (gpc = "loop" /\ inds # <<>>) =>
          /\ inds = rejected
          /\ check_inv(inds) \/ check_trig(inds)
          /\ ret = <<>>

(* returned after a candidate with nested trig tokens was rejected *)
C17_Witness ==
    /\ gpc = "returned"
    /\ rejected = <<"sin", "cos", "x1">>
    /\ ret = <<"sin", "x1">>

----------------------------------------------------------------------------
(* The joint mask as the OR of the forbids *)

(* constraint k forbids token t in its own initial mask / step mask *)
ForbidsInitially(k, t) ==
    ConstraintInitialPrior(lib, priors[k]).val[t] = NegInf
ForbidsAtStep(k, t) == StepMaskOf(<<priors[k]>>).val[1][t] = NegInf

(* the cell is -inf when forbidden and 0 when not *)
CellIs(cell, forbidden) == cell = IF forbidden THEN NegInf ELSE Zero

(* C21: a cell of the joint mask is -inf exactly when at least one
   registered constraint's mask is -inf there and is 0 otherwise;
   registering a constraint twice changes nothing; a JointPrior with no
   constraints returns all zeros, one row of L cells per batch row. *)
C21_JointIsOr ==
    /\ AtInitialMask =>
          /\ \A t \in 1..Len(lib) :
                CellIs(mask[t], \E k \in 1..Len(priors) : ForbidsInitially(k, t))
          /\ JointInitialPrior(lib, priors \o priors) = Ok(mask)
    /\ AtStepMask =>
          /\ \A t \in 1..Len(lib) :
                CellIs(mask[t], \E k \in 1..Len(priors) : ForbidsAtStep(k, t))
          /\ StepMaskOf(priors \o priors) = Ok(<<mask>>)
          /\ \A k \in 1..Len(priors) :
                StepMaskOf(<<priors[k], priors[k]>>) = StepMaskOf(<<priors[k]>>)
    /\ (priors = <<>> /\ pc = "choose") =>
          /\ mask = ZerosVec(Len(lib))
          /\ actions # <<>> =>
                JointCall(lib, priors, <<actions, actions>>, <<-1, 0>>,
                          <<-1, -1>>, <<dangling, 1>>)
                    = Ok(ZerosMat(2, Len(lib)))

(* of three tokens one is forbidden by both constraints, one by one of
   them only, one by neither *)
C21_Witness ==
    /\ AtStepMask
    /\ Len(priors) = 2
    /\ \E t, u, w \in 1..Len(lib) :
          /\ ForbidsAtStep(1, t) /\ ForbidsAtStep(2, t) /\ mask[t] = NegInf
          /\ ForbidsAtStep(1, u) # ForbidsAtStep(2, u) /\ mask[u] = NegInf
          /\ ~ForbidsAtStep(1, w) /\ ~ForbidsAtStep(2, w) /\ mask[w] = Zero

(* a JointPrior with no constraints has answered a step request *)
C21_WitnessEmpty ==
    /\ AtStepMask
    /\ priors = <<>>
    /\ mask = ZerosVec(Len(lib))

----------------------------------------------------------------------------
(* generate_priors: the running dangling count over a token sequence *)

CountLibrary == <<"x1", "exp", "add">>

TokenSeqs == UNION {[1..m -> 1..Len(CountLibrary)] : m \in 0..MaxTokens}

(* one pass of the loop over the tokens: the count after the next token *)
GeneratePriorsPass ==
    /\ pc = "generate_priors"
    /\ Len(trajectory) < Len(actions)
    /\ LET t == actions[Len(trajectory) + 1]
           d == DanglingUpdate(dangling, Arities(lib)[t])
       IN  /\ dangling' = d
           /\ trajectory' = Append(trajectory, d)
    /\ UNCHANGED <<lib, config, budget, pc, priors, err, errAt, actions, mask>>
    /\ UNCHANGED gpvars

(* the loop is over: the function returns *)
GeneratePriorsReturn ==
    /\ pc = "generate_priors"
    /\ Len(trajectory) = Len(actions)
    /\ pc' = "returned"
    /\ UNCHANGED <<lib, config, budget, priors, err, errAt, actions, dangling,
                   trajectory, mask>>
    /\ UNCHANGED gpvars

(* the count runs: generate_priors on one token sequence, well-formed or not *)
InitCount ==
    /\ lib = CountLibrary
    /\ actions \in TokenSeqs
    /\ pc = "generate_priors"
    /\ dangling = 1
    /\ trajectory = <<>>
    /\ config = <<>>
    /\ budget = 0
    /\ priors = <<>>
    /\ err = ""
    /\ errAt = ""
    /\ mask = <<>>
    /\ GpIdle

NextCount == GeneratePriorsPass \/ GeneratePriorsReturn

SpecCount == InitCount /\ [][NextCount]_vars

(* the sum of arity - 1 over the first k tokens *)
RECURSIVE ArityExcess(_, _, _)
ArityExcess(l, toks, k) ==
    IF k = 0 THEN 0
    ELSE ArityExcess(l, toks, k - 1) + (Arity(l[toks[k]]) - 1)

(* the position after the subtree that starts at position i, 0 when the
   tokens run out before it is complete *)
RECURSIVE ParseEnd(_, _, _)
ParseEnd(l, toks, i) ==
    IF i = 0 \/ i > Len(toks) THEN 0
    ELSE CASE Arity(l[toks[i]]) = 0 -> i + 1
           [] Arity(l[toks[i]]) = 1 -> ParseEnd(l, toks, i + 1)
           [] Arity(l[toks[i]]) = 2 ->
                  ParseEnd(l, toks, ParseEnd(l, toks, i + 1))

(* the tokens are exactly one expression in prefix order *)
IsExpression(l, toks) == ParseEnd(l, toks, 1) = Len(toks) + 1

(* C22: the dangling count is 1 before any token and dangling - 1 + a
   after a token of arity a, so after k tokens it is 1 plus the sum of
   (arity - 1); over a well-formed complete expression it is >= 1 after
   every proper prefix and 0 after the last token. *)
C22_DanglingFormula ==
    pc \in {"generate_priors", "returned"} =>
        /\ trajectory = <<>> => dangling = 1
        /\ dangling = 1 + ArityExcess(lib, actions, Len(trajectory))
        /\ \A k \in 1..Len(trajectory) :
              /\ trajectory[k] = 1 + ArityExcess(lib, actions, k)
              /\ trajectory[k] =
                     (IF k = 1 THEN 1 ELSE trajectory[k - 1]) - 1
                         + Arity(lib[actions[k]])
        /\ (pc = "returned" /\ IsExpression(lib, actions)) =>
              /\ \A k \in 1..(Len(actions) - 1) : trajectory[k] >= 1
              /\ trajectory[Len(actions)] = 0
              /\ dangling = 0

(* add(exp(x1), x1): the count runs 2, 2, 1, 1, 0 *)
C22_Witness ==
    /\ pc = "returned"
    /\ IsExpression(lib, actions)
    /\ Len(actions) = 5
    /\ trajectory = <<2, 2, 1, 1, 0>>
    /\ dangling = 0

(* a sequence that is no expression: the count goes below 0 *)
C22_WitnessNotExpression ==
    /\ pc = "returned"
    /\ ~IsExpression(lib, actions)
    /\ dangling < 0

----------------------------------------------------------------------------
(* Dead ends of masked generation *)

(* the library has a terminal and an operator, and the bounds of the
   LengthConstraint are in order *)
CanGenerate ==
    /\ priors # <<>>
    /\ priors[1].type = "length"
    /\ TerminalTokens(lib) # {}
    /\ UnaryTokens(lib) \cup BinaryTokens(lib) # {}
    /\ (~IsNone(priors[1].min) /\ ~IsNone(priors[1].max))
           => Val(priors[1].min) <= Val(priors[1].max)

(* a mask has been returned for a row that still has open slots, and it
   forbids every token *)
DeadEnd == pc = "choose" /\ dangling > 0 /\ Allowed(mask) = {}

(* C23: masked generation never dead-ends: with a terminal and an operator
   in the library and min_ <= max_, every mask returned while dangling > 0
   leaves at least one token at 0. *)
C23_NeverDeadEnds == CanGenerate => ~DeadEnd

(* where the dead ends are: no unary token in the library and
   min_ = max_ even, a length no expression over binary and terminal
   tokens has *)
DeadEndsOnlyEvenLength ==
    (CanGenerate /\ DeadEnd) =>
        /\ UnaryTokens(lib) = {}
        /\ ~IsNone(priors[1].min) /\ ~IsNone(priors[1].max)
        /\ Val(priors[1].min) = Val(priors[1].max)
        /\ Val(priors[1].max) % 2 = 0

----------------------------------------------------------------------------
(* Termination of popConstraint's retry loop *)

(* the candidates validation turns down, and generators of three kinds:
   any tree, invalid trees only, invalid trees and a single valid one *)
FairCandidates == TreesUpTo(FairTree)
PopInvalid == {c \in FairCandidates : check_inv(c) \/ check_trig(c)}
Generators == {FairCandidates, PopInvalid, PopInvalid \cup {<<"sin", "x1">>}}

InitPopFair ==
    /\ PriorIdle
    /\ gpc = "loop"
    /\ generator \in Generators
    /\ names = <<>>
    /\ verdict = <<>>
    /\ limits = <<>>
    /\ args = <<>>
    /\ keep_inds = <<>>
    /\ func_out = <<>>
    /\ new_inds = <<>>
    /\ inds = <<>>
    /\ rejected = <<>>
    /\ ret = <<>>

(* a pass in which the candidate passes validation *)
PopAccept == PopAttempt /\ gpc' = "returned"

(* the retry runs: the wrapper keeps running, and a generator that can
   produce a valid candidate does not withhold it forever *)
SpecPopFair == InitPopFair /\ [][PopAttempt]_vars /\ WF_vars(PopAccept)

(* the generator can produce a candidate that passes validation *)
HasValid == \E c \in generator : ~check_inv(c) /\ ~check_trig(c)

(* the wrapper is still in its loop: nothing returned, nothing raised, and
   another pass can be made *)
StillLooping == gpc = "loop" /\ ret = <<>> /\ err = "" /\ ENABLED PopAttempt

(* C24: popConstraint's loop terminates exactly when the generator
   eventually produces a candidate for which check_inv and check_trig are
   both False: with a generator that keeps producing such candidates the
   wrapper eventually returns, and what it returns is such a candidate;
   with a generator of invalid candidates only it never returns and never
   raises, however many passes it has made. *)
C24_PopTerminatesIff ==
    /\ (HasValid /\ gpc = "loop") ~> (gpc = "returned")
    /\ [](gpc = "returned" =>
              (ret \in generator /\ ~check_inv(ret) /\ ~check_trig(ret)))
    /\ [](~HasValid => StillLooping)

(* returned although the generator had only one valid candidate to offer,
   after a rejected pass *)
C24_Witness ==
    /\ gpc = "returned"
    /\ generator = PopInvalid \cup {<<"sin", "x1">>}
    /\ rejected # <<>>
    /\ ret = <<"sin", "x1">>

(* still looping after a rejected pass with a generator of invalid
   candidates only *)
C24_WitnessLooping ==
    /\ gpc = "loop"
    /\ ~HasValid
    /\ rejected = <<"exp", "log", "x1">>
    /\ inds = rejected

====
